---- MODULE Spec2Model ----
(***************************************************************************)
(* auto-maketorrent (src/main.go, the daemon of lines 266-586): the        *)
(* bounded-concurrency dedup orchestrator.  main scans the watch root,     *)
(* registers the watcher, and the watchFolders loop turns create events    *)
(* into processNewFolder calls; every admitted job runs createTorrent and  *)
(* updateDatabase in its own goroutine while holding one semaphore token.  *)
(***************************************************************************)
EXTENDS Integers, Sequences, FiniteSets, TLC

\* ------------------------------------------------------------------ bounds
\* Largest runtime.NumCPU() the environment may report.
MaxCPU == 4
\* Number of create/remove operations the environment performs under the root.
MaxFsOps == 2

\* Entries (directories and regular files) in the tree of one hashed entry.
MaxTree == 3
\* Largest size of a regular file, in bytes.
MaxFileLen == 3
\* Largest piece length, in bytes.
MaxPieceLen == 2

\* The top-level names that can exist under watchDir, and which of them are
\* directories (fi.IsDir()).
Dirs == {"a", "b.torrent"}
Files == {"f"}
Names == Dirs \cup Files
TorrentSuffix == ".torrent"
NoPath == ""

VARIABLES
    fs,         \* names that currently exist under watchDir
    fsOps,      \* environment operations performed so far
    watching,   \* watcher.Add(watchDir) has been executed
    events,     \* watcher.Events: pending notifications, oldest first
    walkNames,  \* filepath.Walk: names of the root listing not yet visited
    dpc,        \* position of the dispatcher (main, then watchFolders)
    cur,        \* folderPath of the processNewFolder call in progress
    semCap,     \* cap(semaphore)
    semaphore,  \* len(semaphore): tokens held
    wg,         \* the WaitGroup counter
    dbMutex,    \* holder of dbMutex: Free, Dispatcher, or a job number
    db,         \* rows of processed_files, in insertion order
    jobs,       \* the goroutines spawned by processNewFolder, in spawn order
    out,        \* the file outputDir/<name>.torrent, per name
    submits,    \* history: processNewFolder calls per name
    late,       \* history: a call for the name began with its record present
    dbFailed,   \* history: a ledger query or insert returned an engine error
    hasher,     \* createTorrent seen from inside: the walk and the hashing
    passed      \* history: the calls whose ledger check passed, in order

vars == <<fs, fsOps, watching, events, walkNames, dpc, cur, semCap,
          semaphore, wg, dbMutex, db, jobs, out, submits, late, dbFailed,
          hasher, passed>>

\* ------------------------------------------------------------- pure helpers
Free == 0
Dispatcher == -1

IsDir(n) == n \in Dirs

\* strings.HasSuffix
HasSuffix(s, suffix) ==
    /\ Len(s) >= Len(suffix)
    /\ SubSeq(s, Len(s) - Len(suffix) + 1, Len(s)) = suffix

\* Lexical order of the names (readDirNames sorts the listing).
Lexical == <<"a", "b.torrent", "f">>
Rank(n) == CHOOSE k \in 1..Len(Lexical) : Lexical[k] = n

RECURSIVE readDirNames(_)
readDirNames(S) ==
    IF S = {} THEN <<>>
    ELSE LET first == CHOOSE n \in S : \A m \in S : Rank(n) <= Rank(m)
         IN  <<first>> \o readDirNames(S \ {first})

\* maxThreads of main
MaxThreads(numCPU) == IF numCPU \div 2 < 1 THEN 1 ELSE numCPU \div 2

\* SELECT COUNT(*) FROM processed_files WHERE path = ?
Count(rows, p) == Cardinality({i \in 1..Len(rows) : rows[i].path = p})

\* A path column without the UNIQUE constraint.
NotUnique(rows, p) == FALSE

\* INSERT INTO processed_files (path, ...): path is declared UNIQUE.
Violates(rows, p) == Count(rows, p) > 0
Insert(rows, p) == Append(rows, [id |-> Len(rows) + 1, path |-> p])

\* A goroutine started by processNewFolder.
\*   pc   where it is: createTorrent ("hash", "create", "write"),
\*        updateDatabase ("lock", "insert"), the deferred release, "done"
\*   ok   createTorrent reached its end (the file was written)
\*   ins  outcome of the INSERT: "none", "accepted", "duplicate", "error"
\*   over the job whose completely written file this job's os.Create truncated
\* The number of the processNewFolder call in progress: the calls are made one
\* after the other, so it is the number of calls made so far.
RECURSIVE Calls(_)
Calls(S) == IF S = {} THEN 0
            ELSE LET n == CHOOSE x \in S : TRUE IN submits[n] + Calls(S \ {n})

CurCall == Calls(Names)

NewJob(p) ==
    [path |-> p, pc |-> "hash", ok |-> FALSE, ins |-> "none", over |-> 0,
     call |-> CurCall]

Live(j) == jobs[j].pc # "done"
Hashing(j) == jobs[j].pc \in {"hash", "create", "write"}
JobsOf(p) == {j \in 1..Len(jobs) : jobs[j].path = p}

\* Where the dispatcher continues after a processNewFolder call or a skipped
\* entry: the Walk of main, or the event loop of watchFolders.
Idle == IF watching THEN "watch" ELSE "scan"

\* log.Fatal in a job: the error would end the process.
LogFatal(d) == "fatal"

\* log.Println in a job: the error is reported and the goroutine goes on.  The
\* argument and the value are the dispatcher's position before and after.
LogPrintln(d) == d

\* ------------------------------------------------------------------- Init
\* No createTorrent is being looked into.
NoHasher ==
    [pc |-> "idle", single |-> FALSE, tree |-> <<>>, wi |-> 0, files |-> <<>>,
     PieceLength |-> 1, fi |-> 0, off |-> 0, buf |-> <<>>, pieces |-> <<>>]

Init ==
    /\ fs \in SUBSET Names
    /\ fsOps = 0
    /\ watching = FALSE
    /\ events = <<>>
    /\ walkNames = <<>>
    /\ dpc = "start"
    /\ cur = NoPath
    /\ \E numCPU \in 1..MaxCPU : semCap = MaxThreads(numCPU)
    /\ semaphore = 0
    /\ wg = 0
    /\ dbMutex = Free
    /\ db = <<>>
    /\ jobs = <<>>
    /\ out = [n \in Names |-> [state |-> "absent", writer |-> 0]]
    /\ submits = [n \in Names |-> 0]
    /\ late = [n \in Names |-> FALSE]
    /\ dbFailed = FALSE
    /\ hasher = NoHasher
    /\ passed = <<>>

\* ---------------------------------------------------------- the environment
Notify(n, op) ==
    events' = IF watching THEN Append(events, [name |-> n, op |-> op]) ELSE events

CreateEntry(n) ==
    /\ UNCHANGED <<hasher, passed>>
    /\ dpc # "fatal"
    /\ fsOps < MaxFsOps
    /\ n \notin fs
    /\ fs' = fs \cup {n}
    /\ fsOps' = fsOps + 1
    /\ Notify(n, "CREATE")
    /\ UNCHANGED <<watching, walkNames, dpc, cur, semCap, semaphore, wg,
                   dbMutex, db, jobs, out, submits, late, dbFailed>>

RemoveEntry(n) ==
    /\ UNCHANGED <<hasher, passed>>
    /\ dpc # "fatal"
    /\ fsOps < MaxFsOps
    /\ n \in fs
    /\ fs' = fs \ {n}
    /\ fsOps' = fsOps + 1
    /\ Notify(n, "REMOVE")
    /\ UNCHANGED <<watching, walkNames, dpc, cur, semCap, semaphore, wg,
                   dbMutex, db, jobs, out, submits, late, dbFailed>>

\* ----------------------------------------------------------- processNewFolder
\* The call processNewFolder(p): the dispatcher enters isNewFolder.
Submit(p) ==
    /\ cur' = p
    /\ dpc' = "lock"
    /\ submits' = [submits EXCEPT ![p] = @ + 1]
    /\ late' = [late EXCEPT ![p] = @ \/ Count(db, p) > 0]

\* A ledger access that takes no lock.
LockNothing(m) == TRUE

\* dbMutex.Lock() returns only when nobody holds the mutex.
Lock(m) == m = Free

\* A return that leaves the mutex held.
UnlockForgotten(m) == m

\* defer dbMutex.Unlock()
Unlock(m) == Free

\* isNewFolder: dbMutex.Lock()
IsNewLock ==
    /\ UNCHANGED <<hasher, passed>>
    /\ dpc = "lock"
    /\ Lock(dbMutex)
    /\ dbMutex' = Dispatcher
    /\ dpc' = "query"
    /\ UNCHANGED <<fs, fsOps, watching, events, walkNames, cur, semCap,
                   semaphore, wg, db, jobs, out, submits, late, dbFailed>>

\* The value isNewFolder would return if a failed query counted as "new".
isNewFolderFailOpen(err, count) == IF err THEN TRUE ELSE count = 0

\* The value isNewFolder returns for a query that ended with err / count.
isNewFolder(err, count) == IF err THEN FALSE ELSE count = 0

\* isNewFolder: the query and the deferred Unlock.  A failed query is logged
\* ("qerr") before isNewFolder returns; otherwise processNewFolder branches
\* on the result, with wg.Add(1) when the folder is new.
IsNewQuery ==
    /\ UNCHANGED hasher
    /\ dpc = "query"
    /\ \E err \in BOOLEAN :
        /\ dbFailed' = (dbFailed \/ err)
        /\ IF err
           THEN /\ dpc' = "qerr"
                /\ UNCHANGED <<wg, cur>>
           ELSE IF isNewFolder(err, Count(db, cur))
           THEN /\ wg' = wg + 1
                /\ dpc' = "send"
                /\ cur' = cur
           ELSE /\ wg' = wg
                /\ dpc' = Idle
                /\ cur' = NoPath
        /\ passed' = IF isNewFolder(err, Count(db, cur))
                     THEN Append(passed, CurCall) ELSE passed
    /\ dbMutex' = Unlock(dbMutex)
    /\ UNCHANGED <<fs, fsOps, watching, events, walkNames, semCap, semaphore,
                   db, jobs, out, submits, late>>

\* The return of isNewFolder after a failed query, and what processNewFolder
\* does with it.
IsNewFailed ==
    /\ UNCHANGED hasher
    /\ dpc = "qerr"
    /\ IF isNewFolder(TRUE, Count(db, cur))
       THEN /\ wg' = wg + 1
            /\ dpc' = "send"
            /\ cur' = cur
            /\ passed' = Append(passed, CurCall)
       ELSE /\ wg' = wg
            /\ dpc' = Idle
            /\ cur' = NoPath
            /\ passed' = passed
    /\ UNCHANGED <<fs, fsOps, watching, events, walkNames, semCap, semaphore,
                   dbMutex, db, jobs, out, submits, late, dbFailed>>

\* A send that never blocks (a channel that is not bounded by maxThreads).
CanSendUnbounded(n, cap) == n >= 0

\* semaphore <- struct{}{} blocks while the channel is full; then go func().
CanSend(n, cap) == n < cap

SemSend ==
    /\ UNCHANGED <<hasher, passed>>
    /\ dpc = "send"
    /\ CanSend(semaphore, semCap)
    /\ semaphore' = semaphore + 1
    /\ jobs' = Append(jobs, NewJob(cur))
    /\ dpc' = Idle
    /\ cur' = NoPath
    /\ UNCHANGED <<fs, fsOps, watching, events, walkNames, semCap, wg,
                   dbMutex, db, out, submits, late, dbFailed>>

\* A caller that goes on to its next entry while its last processNewFolder
\* call still waits to hand over its job.
ReturnedEarly(d, at) == d \in {at, "send"}

\* The caller of processNewFolder (the walk function at "scan", the event
\* loop at "watch") takes its next entry only when the call has returned.
Returned(d, at) == d = at

\* --------------------------------------------------------------------- main
\* filepath.Walk(watchDir, ...): the root is listed once, sorted.
WalkRoot ==
    /\ UNCHANGED <<hasher, passed>>
    /\ dpc = "start"
    /\ walkNames' = readDirNames(fs)
    /\ dpc' = "scan"
    /\ UNCHANGED <<fs, fsOps, watching, events, cur, semCap, semaphore,
                   wg, dbMutex, db, jobs, out, submits, late, dbFailed>>

\* One entry of the listing: lstat, then the walk function.
WalkVisit ==
    /\ UNCHANGED <<hasher, passed>>
    /\ ~watching
    /\ Returned(dpc, "scan")
    /\ walkNames # <<>>
    /\ LET n == Head(walkNames) IN
        /\ walkNames' = Tail(walkNames)
        /\ IF n \notin fs
           THEN \* lstat fails: the walk function returns err, main log.Fatal
                /\ dpc' = "fatal"
                /\ UNCHANGED <<cur, submits, late, dbFailed>>
           ELSE IF IsDir(n)
           THEN Submit(n)
           ELSE UNCHANGED <<dpc, cur, submits, late, dbFailed>>
    /\ UNCHANGED <<fs, fsOps, watching, events, semCap, semaphore, wg,
                   dbMutex, db, jobs, out, dbFailed>>

\* fsnotify.NewWatcher, go watchFolders(watcher), watcher.Add(watchDir)
AddWatch ==
    /\ UNCHANGED <<hasher, passed>>
    /\ dpc = "scan"
    /\ walkNames = <<>>
    /\ watching' = TRUE
    /\ dpc' = "watch"
    /\ UNCHANGED <<fs, fsOps, events, walkNames, cur, semCap, semaphore,
                   wg, dbMutex, db, jobs, out, submits, late, dbFailed>>

\* ------------------------------------------------------------- watchFolders
\* A watcher that filters nothing.
IsTorrentFileNever(name) == FALSE

\* strings.HasSuffix(event.Name, ".torrent"): the notification is only logged.
IsTorrentFile(name) == HasSuffix(name, TorrentSuffix)

WatchEvent ==
    /\ UNCHANGED <<hasher, passed>>
    /\ watching
    /\ Returned(dpc, "watch")
    /\ events # <<>>
    /\ LET e == Head(events) IN
        /\ events' = Tail(events)
        /\ IF e.op = "CREATE" /\ ~IsTorrentFile(e.name)
              /\ e.name \in fs /\ IsDir(e.name)
           THEN Submit(e.name)
           ELSE UNCHANGED <<dpc, cur, submits, late, dbFailed>>
    /\ UNCHANGED <<fs, fsOps, watching, walkNames, semCap, semaphore, wg,
                   dbMutex, db, jobs, out, dbFailed>>

\* ------------------------------------------------------------ createTorrent
SetJob(j, r) == jobs' = [jobs EXCEPT ![j] = r]

\* os.Open, Stat, Walk, GeneratePieces, bencode.Marshal: any error is logged
\* and createTorrent returns.
Hash(j) ==
    /\ UNCHANGED <<hasher, passed>>
    /\ dpc # "fatal"
    /\ jobs[j].pc = "hash"
    /\ \E err \in BOOLEAN :
        IF err \/ jobs[j].path \notin fs
        THEN /\ SetJob(j, [jobs[j] EXCEPT !.pc = "lock"])
             /\ dpc' = LogPrintln(dpc)
        ELSE /\ SetJob(j, [jobs[j] EXCEPT !.pc = "create"])
             /\ dpc' = dpc
    /\ UNCHANGED <<fs, fsOps, watching, events, walkNames, cur, semCap,
                   semaphore, wg, dbMutex, db, out, submits, late, dbFailed>>

\* os.Create(torrentPath) truncates the file in place.
Create(j) ==
    /\ UNCHANGED <<hasher, passed>>
    /\ dpc # "fatal"
    /\ jobs[j].pc = "create"
    /\ LET p == jobs[j].path IN
       \E err \in BOOLEAN :
        IF err
        THEN /\ SetJob(j, [jobs[j] EXCEPT !.pc = "lock"])
             /\ out' = out
             /\ dpc' = LogPrintln(dpc)
        ELSE /\ SetJob(j, [jobs[j] EXCEPT
                    !.pc = "write",
                    !.over = IF out[p].state = "complete" THEN out[p].writer ELSE 0])
             /\ out' = [out EXCEPT ![p] = [state |-> "partial", writer |-> j]]
             /\ dpc' = dpc
    /\ UNCHANGED <<fs, fsOps, watching, events, walkNames, cur, semCap,
                   semaphore, wg, dbMutex, db, submits, late, dbFailed>>

\* mi.Write(torrentFile)
Write(j) ==
    /\ UNCHANGED <<hasher, passed>>
    /\ dpc # "fatal"
    /\ jobs[j].pc = "write"
    /\ LET p == jobs[j].path IN
       \E err \in BOOLEAN :
        IF err
        THEN /\ SetJob(j, [jobs[j] EXCEPT !.pc = "lock"])
             /\ out' = [out EXCEPT ![p] = [state |-> "partial", writer |-> j]]
             /\ dpc' = LogPrintln(dpc)
        ELSE /\ SetJob(j, [jobs[j] EXCEPT !.pc = "lock", !.ok = TRUE])
             /\ out' = [out EXCEPT ![p] = [state |-> "complete", writer |-> j]]
             /\ dpc' = dpc
    /\ UNCHANGED <<fs, fsOps, watching, events, walkNames, cur, semCap,
                   semaphore, wg, dbMutex, db, submits, late, dbFailed>>

\* ----------------------------------------------------------- updateDatabase
\* dbMutex.Lock()
DbLock(j) ==
    /\ UNCHANGED <<hasher, passed>>
    /\ dpc # "fatal"
    /\ jobs[j].pc = "lock"
    /\ Lock(dbMutex)
    /\ dbMutex' = j
    /\ SetJob(j, [jobs[j] EXCEPT !.pc = "insert"])
    /\ UNCHANGED <<fs, fsOps, watching, events, walkNames, dpc, cur,
                   semCap, semaphore, wg, db, out, submits, late, dbFailed>>

\* What db.Exec of the INSERT does to the table for a path: the outcome and
\* the rows afterwards.  err is a failure of the engine itself.
updateDatabase(rows, p, err) ==
    IF err THEN [ins |-> "error", rows |-> rows]
    ELSE IF Violates(rows, p) THEN [ins |-> "duplicate", rows |-> rows]
    ELSE [ins |-> "accepted", rows |-> Insert(rows, p)]

\* db.Exec, the logged error, the deferred Unlock.
DbInsert(j) ==
    /\ UNCHANGED <<hasher, passed>>
    /\ dpc # "fatal"
    /\ jobs[j].pc = "insert"
    /\ \E err \in BOOLEAN :
        LET r == updateDatabase(db, jobs[j].path, err) IN
        /\ db' = r.rows
        /\ SetJob(j, [jobs[j] EXCEPT !.pc = "release", !.ins = r.ins])
        /\ dbFailed' = (dbFailed \/ err)
        /\ dpc' = IF r.ins = "accepted" THEN dpc ELSE LogPrintln(dpc)
    /\ dbMutex' = Unlock(dbMutex)
    /\ UNCHANGED <<fs, fsOps, watching, events, walkNames, cur, semCap,
                   semaphore, wg, out, submits, late>>

\* A goroutine that ends without taking its token back.
SemRecvLeak(n) == n

\* A goroutine that takes two tokens back.
SemRecvTwice(n) == n - 2

\* <-semaphore
SemRecv(n) == n - 1

\* The deferred function of the goroutine: <-semaphore; wg.Done()
Release(j) ==
    /\ UNCHANGED <<hasher, passed>>
    /\ dpc # "fatal"
    /\ jobs[j].pc = "release"
    /\ semaphore' = SemRecv(semaphore)
    /\ wg' = wg - 1
    /\ SetJob(j, [jobs[j] EXCEPT !.pc = "done"])
    /\ UNCHANGED <<fs, fsOps, watching, events, walkNames, dpc, cur,
                   semCap, dbMutex, db, out, submits, late, dbFailed>>

\* ------------------------------------------------------------ specification
DispatcherStep ==
    \/ WalkRoot
    \/ WalkVisit
    \/ AddWatch
    \/ WatchEvent
    \/ IsNewLock
    \/ IsNewQuery
    \/ IsNewFailed
    \/ SemSend

JobStep(j) ==
    \/ Hash(j)
    \/ Create(j)
    \/ Write(j)
    \/ DbLock(j)
    \/ DbInsert(j)
    \/ Release(j)

Next ==
    \/ \E n \in Names : CreateEntry(n)
    \/ \E n \in Names : RemoveEntry(n)
    \/ WalkRoot
    \/ WalkVisit
    \/ AddWatch
    \/ WatchEvent
    \/ IsNewLock
    \/ IsNewQuery
    \/ IsNewFailed
    \/ SemSend
    \/ \E j \in 1..Len(jobs) : Hash(j)
    \/ \E j \in 1..Len(jobs) : Create(j)
    \/ \E j \in 1..Len(jobs) : Write(j)
    \/ \E j \in 1..Len(jobs) : DbLock(j)
    \/ \E j \in 1..Len(jobs) : DbInsert(j)
    \/ \E j \in 1..Len(jobs) : Release(j)

Spec == Init /\ [][Next]_vars

\* The same program in an environment that only creates entries: every path
\* is then submitted at most once.
NextDistinct ==
    \/ \E n \in Names : CreateEntry(n)
    \/ WalkRoot
    \/ WalkVisit
    \/ AddWatch
    \/ WatchEvent
    \/ IsNewLock
    \/ IsNewQuery
    \/ IsNewFailed
    \/ SemSend
    \/ \E j \in 1..Len(jobs) : Hash(j)
    \/ \E j \in 1..Len(jobs) : Create(j)
    \/ \E j \in 1..Len(jobs) : Write(j)
    \/ \E j \in 1..Len(jobs) : DbLock(j)
    \/ \E j \in 1..Len(jobs) : DbInsert(j)
    \/ \E j \in 1..Len(jobs) : Release(j)

\* The Go scheduler runs every runnable goroutine: the dispatcher and each job
\* keep taking steps.  The environment is under no obligation.
FairDistinct ==
    /\ Init
    /\ [][NextDistinct]_vars
    /\ WF_vars(DispatcherStep)
    /\ \A j \in 1..Cardinality(Dirs) : WF_vars(j <= Len(jobs) /\ JobStep(j))

\* ------------------------------------------- createTorrent: walk and hashing
\* One createTorrent call seen from inside.  The entry is a single regular
\* file or a directory; tree lists what filepath.Walk visits below a
\* directory, in walk order, each item a directory or a regular file with its
\* size.  A byte of the entry is named <<p, k>>: byte k of item p of the tree.
Item == [dir : {TRUE}, len : {0}] \cup [dir : {FALSE}, len : 0..MaxFileLen]

RegularFile == [dir : {FALSE}, len : 0..MaxFileLen]

Trees == UNION {[1..n -> Item] : n \in 0..MaxTree}

Min(a, b) == IF a <= b THEN a ELSE b

\* The n bytes of item p that follow its first `from` bytes.
FileBytes(p, from, n) == [k \in 1..n |-> <<p, from + k>>]

\* info.Files = []metainfo.FileInfo{...}: only the last file stays listed.
AppendFileAssign(files, p, e) ==
    IF e.dir THEN files ELSE <<[path |-> p, length |-> e.len]>>

\* The walk function: if !fi.IsDir() { info.Files = append(info.Files, ...) }
AppendFile(files, p, e) ==
    IF e.dir THEN files ELSE Append(files, [path |-> p, length |-> e.len])

\* The state before createTorrent is entered: nothing of the orchestrator
\* runs, and the entry and info.PieceLength are any of the bounded ones (the
\* build fixes PieceLength to 1024 * 1024).
HashInit ==
    /\ fs = {} /\ fsOps = 0 /\ watching = FALSE /\ events = <<>>
    /\ walkNames = <<>> /\ dpc = "start" /\ cur = NoPath
    /\ semCap = 1 /\ semaphore = 0 /\ wg = 0 /\ dbMutex = Free
    /\ db = <<>> /\ jobs = <<>>
    /\ out = [n \in Names |-> [state |-> "absent", writer |-> 0]]
    /\ submits = [n \in Names |-> 0]
    /\ late = [n \in Names |-> FALSE]
    /\ dbFailed = FALSE
    /\ passed = <<>>
    /\ \E single \in BOOLEAN, L \in 1..MaxPieceLen :
        \E t \in IF single THEN [1..1 -> RegularFile] ELSE Trees :
            hasher = [NoHasher EXCEPT !.pc = "stat", !.single = single,
                                      !.tree = t, !.PieceLength = L]

\* file.Stat(): a single file is described by info.Length and is the only
\* file of the stream; a directory is walked.
StatEntry ==
    /\ hasher.pc = "stat"
    /\ hasher' =
        IF hasher.single
        THEN [hasher EXCEPT
                !.files = <<[path |-> 1, length |-> hasher.tree[1].len]>>,
                !.pc = "hash", !.fi = 1]
        ELSE [hasher EXCEPT !.pc = "walk", !.wi = 1]
    /\ UNCHANGED <<fs, fsOps, watching, events, walkNames, dpc, cur, semCap,
                   semaphore, wg, dbMutex, db, jobs, out, submits, late,
                   dbFailed, passed>>

\* filepath.Walk(filePath, ...): one visit, or the end of the walk.
WalkEntry ==
    /\ hasher.pc = "walk"
    /\ hasher' =
        IF hasher.wi <= Len(hasher.tree)
        THEN [hasher EXCEPT
                !.files = AppendFile(@, hasher.wi, hasher.tree[hasher.wi]),
                !.wi = @ + 1]
        ELSE [hasher EXCEPT !.pc = "hash", !.fi = 1]
    /\ UNCHANGED <<fs, fsOps, watching, events, walkNames, dpc, cur, semCap,
                   semaphore, wg, dbMutex, db, jobs, out, submits, late,
                   dbFailed, passed>>

\* info.GeneratePieces: bytes of the current file go into the piece buffer,
\* as many as the file still has and the buffer still takes.
FillPiece ==
    /\ hasher.pc = "hash"
    /\ hasher.fi <= Len(hasher.files)
    /\ hasher.off < hasher.files[hasher.fi].length
    /\ Len(hasher.buf) < hasher.PieceLength
    /\ LET f == hasher.files[hasher.fi]
           n == Min(f.length - hasher.off,
                    hasher.PieceLength - Len(hasher.buf))
       IN hasher' = [hasher EXCEPT
                        !.buf = @ \o FileBytes(f.path, hasher.off, n),
                        !.off = @ + n]
    /\ UNCHANGED <<fs, fsOps, watching, events, walkNames, dpc, cur, semCap,
                   semaphore, wg, dbMutex, db, jobs, out, submits, late,
                   dbFailed, passed>>

\* The buffer is full: its digest is emitted (the digest stands for exactly
\* the bytes it covers) and the buffer is reset.
EmitPiece ==
    /\ hasher.pc = "hash"
    /\ Len(hasher.buf) = hasher.PieceLength
    /\ hasher' = [hasher EXCEPT !.pieces = Append(@, hasher.buf),
                                !.buf = <<>>]
    /\ UNCHANGED <<fs, fsOps, watching, events, walkNames, dpc, cur, semCap,
                   semaphore, wg, dbMutex, db, jobs, out, submits, late,
                   dbFailed, passed>>

\* The current file is exhausted: the next one is opened and fills the same
\* buffer.
NextFile ==
    /\ hasher.pc = "hash"
    /\ hasher.fi <= Len(hasher.files)
    /\ hasher.off = hasher.files[hasher.fi].length
    /\ Len(hasher.buf) < hasher.PieceLength
    /\ hasher' = [hasher EXCEPT !.fi = @ + 1, !.off = 0]
    /\ UNCHANGED <<fs, fsOps, watching, events, walkNames, dpc, cur, semCap,
                   semaphore, wg, dbMutex, db, jobs, out, submits, late,
                   dbFailed, passed>>

\* End of the stream: a nonzero partial buffer is emitted as the last piece.
EndOfStream ==
    /\ hasher.pc = "hash"
    /\ hasher.fi > Len(hasher.files)
    /\ Len(hasher.buf) < hasher.PieceLength
    /\ hasher' = [hasher EXCEPT
                    !.pieces = IF hasher.buf = <<>> THEN @
                               ELSE Append(@, hasher.buf),
                    !.buf = <<>>, !.pc = "done"]
    /\ UNCHANGED <<fs, fsOps, watching, events, walkNames, dpc, cur, semCap,
                   semaphore, wg, dbMutex, db, jobs, out, submits, late,
                   dbFailed, passed>>

HashNext ==
    \/ StatEntry
    \/ WalkEntry
    \/ FillPiece
    \/ EmitPiece
    \/ NextFile
    \/ EndOfStream

HashSpec == HashInit /\ [][HashNext]_vars

\* ------------------------------------------------------------------ claims
HashingJobs == {j \in 1..Len(jobs) : Hashing(j)}
LiveJobs == {j \in 1..Len(jobs) : Live(j)}
HasRecord(p) == Count(db, p) > 0
\* Jobs for p that ran createTorrent to its end and returned from updateDatabase.
FullJobs(p) == {j \in JobsOf(p) : jobs[j].ok /\ jobs[j].pc \in {"release", "done"}}
Max(a, b) == IF a >= b THEN a ELSE b

\* C1: over all processNewFolder calls for one path, at most one full job
\* (createTorrent followed by updateDatabase) for that path runs to completion.
C1_AtMostOneFullJob == \A p \in Names : Cardinality(FullJobs(p)) <= 1

\* C2: the jobs inside createTorrent never outnumber the pool bound
\* K = max(1, NumCPU / 2).
C2_PoolBound ==
    /\ \E numCPU \in 1..MaxCPU : semCap = Max(1, numCPU \div 2)
    /\ Cardinality(HashingJobs) <= semCap

\* C2 witness: the pool is saturated with hashing jobs while the dispatcher
\* holds a further admitted path back.
C2_Witness ==
    /\ dpc = "send"
    /\ Cardinality(HashingJobs) = semCap

\* C3: a record for a path exists only if a job for that path succeeded.
C3_RecordOnlyOnSuccess ==
    \A p \in Names : HasRecord(p) => \E j \in JobsOf(p) : jobs[j].ok

NoLive(p) == \A j \in JobsOf(p) : ~Live(j)
Submitted == {p \in Names : submits[p] > 0}
Quiescent == dpc = "watch" /\ events = <<>> /\ LiveJobs = {}

Written(p) == {j \in JobsOf(p) : jobs[j].ok}

\* C5: when a path is submitted twice and the second call begins after the
\* first job's record was committed, exactly one job runs for the path and the
\* output file is written exactly once.
C5_ExactlyOnce ==
    \A p \in Dirs :
        (submits[p] = 2 /\ late[p] /\ cur # p /\ NoLive(p))
        => (Cardinality(JobsOf(p)) = 1 /\ Cardinality(Written(p)) = 1)

\* The part of C5 the dispatcher alone decides: the second call spawns no job.
C5_SecondCallSpawnsNothing ==
    \A p \in Dirs : (submits[p] = 2 /\ late[p]) => Cardinality(JobsOf(p)) = 1

Accepted(p) == {j \in JobsOf(p) : jobs[j].ins = "accepted"}

\* C6: of the jobs in flight for one path at most one wins the ledger insert,
\* and a job that lost the insert has not written the output file over the
\* file the winner wrote.
C6_LoserDiscardsOutput ==
    /\ \A p \in Names : Cardinality(Accepted(p)) <= 1
    /\ \A j \in 1..Len(jobs) :
        (jobs[j].ins = "duplicate" /\ jobs[j].over # 0)
        => jobs[jobs[j].over].ins # "accepted"

\* C7: the ledger never holds two records for one path; an insert for a
\* recorded path is rejected and leaves the ledger as it was; rows are only
\* ever appended, never changed or removed.
C7_OneRecordPerPath ==
    /\ [](\A p \in Names : Count(db, p) <= 1)
    /\ [][/\ Len(db') >= Len(db)
          /\ SubSeq(db', 1, Len(db)) = db
          /\ \A j \in 1..Len(jobs) :
                (jobs[j].pc = "insert" /\ jobs'[j].pc = "release"
                    /\ HasRecord(jobs[j].path))
                => (db' = db /\ jobs'[j].ins \in {"duplicate", "error"})]_vars

\* C7 witness: a second insert for a recorded path was rejected.
C7_Witness ==
    \E j \in 1..Len(jobs) :
        jobs[j].ins = "duplicate" /\ Count(db, jobs[j].path) = 1

\* A job whose createTorrent or ledger insert ended with an error.
Failed(j) ==
    \/ jobs[j].pc \in {"lock", "insert", "release", "done"} /\ ~jobs[j].ok
    \/ jobs[j].ins \in {"duplicate", "error"}

\* A job that is not waiting for dbMutex held by someone else can take its
\* next step, and whoever holds dbMutex is about to release it.
Unblocked(j) ==
    /\ (jobs[j].pc = "lock" /\ dbMutex # Free) \/ ENABLED JobStep(j)
    /\ dbMutex = j => jobs[j].pc = "insert"

\* C8: a per-job error leaves the daemon running and the other jobs and the
\* pool alone.  A step of a job changes neither the dispatcher's position, nor
\* the pool's capacity, nor another job; whatever failed before, the tokens
\* held are exactly those of the live jobs, every live job can go on, and the
\* dispatcher is held at the pool only while the pool is full of live jobs.
C8_ErrorsAreIsolated ==
    /\ [](/\ semaphore = Cardinality(LiveJobs)
          /\ semaphore <= semCap
          /\ dpc # "fatal" => \A j \in LiveJobs : Unblocked(j)
          /\ (dpc = "send" /\ semaphore < semCap) => ENABLED SemSend)
    /\ [][\A j \in 1..Len(jobs) :
            jobs'[j] # jobs[j]
            => (/\ dpc' = dpc
                /\ semCap' = semCap
                /\ cur' = cur
                /\ \A k \in 1..Len(jobs) : k # j => jobs'[k] = jobs[k])]_vars

\* C8 witness: a job failed, and after it had ended another job was admitted
\* into the full-capacity pool and succeeded.
C8_Witness ==
    /\ dpc = "watch"
    /\ semaphore = 0
    /\ \E j, k \in 1..Len(jobs) :
        /\ j < k
        /\ Failed(j) /\ jobs[j].pc = "done"
        /\ jobs[k].ok /\ jobs[k].ins = "accepted" /\ jobs[k].pc = "done"

\* C9: a failed ledger query schedules nothing: the dispatcher goes back to
\* its loop without touching the pool, the WaitGroup, the ledger, the jobs or
\* the output files, and it never reaches the pool with a failed query.
C9_FailClosed ==
    [][/\ (dpc = "query" /\ dpc' = "qerr")
            => UNCHANGED <<semaphore, wg, db, jobs, out>>
       /\ (dpc = "qerr" /\ dpc' # "qerr")
            => (/\ dpc' \in {"scan", "watch"}
                /\ UNCHANGED <<semaphore, wg, db, jobs, out, dbMutex>>)]_vars

\* C9 witness: the only submission so far met a failed query, and nothing was
\* scheduled or recorded.
C9_Witness ==
    /\ dbFailed
    /\ dpc = "watch"
    /\ submits["a"] = 1 /\ submits["b.torrent"] = 0
    /\ jobs = <<>> /\ semaphore = 0 /\ wg = 0 /\ db = <<>>

\* C10, for the directories among the entries whose creation the watcher does
\* not ignore: once the dispatcher is in its event loop with no notification
\* pending, every such directory that exists under the watch root has been
\* submitted at least once.
C10_EveryEntrySubmitted ==
    (dpc = "watch" /\ events = <<>>)
        => \A n \in fs \cap Dirs :
                ~HasSuffix(n, TorrentSuffix) => submits[n] > 0

\* ------------------------------------------------------------------- C11
\* The entry the scan is visiting, and the notification being handled.
Visited == Head(walkNames)

Notified == Head(events)

\* C11: both discovery paths submit each immediate child of the watch root as
\* one entry: the scan submits every existing child it visits, directory or
\* regular file, exactly once, and the watcher submits every existing child
\* whose creation is notified (the ".torrent" names apart).
C11_EveryChildIsAnEntry ==
    [][/\ (/\ dpc = "scan" /\ walkNames # <<>>
           /\ walkNames' = Tail(walkNames)
           /\ Visited \in fs)
            => submits' = [submits EXCEPT ![Visited] = @ + 1]
       /\ (/\ dpc = "watch" /\ events # <<>>
           /\ events' = Tail(events)
           /\ Notified.op = "CREATE"
           /\ Notified.name \in fs
           /\ ~HasSuffix(Notified.name, TorrentSuffix))
            => submits' = [submits EXCEPT ![Notified.name] = @ + 1]]_vars

\* ------------------------------------------------------------------- C12
\* C12: handling a create notification whose path ends in ".torrent" changes
\* nothing but the notification queue: no submission, no ledger query (the
\* mutex and the ledger stay as they are), no slot, no job, no WaitGroup
\* count, no output, whatever the ledger holds; and once the watcher runs no
\* path with that suffix is submitted at all.
C12_TorrentNotificationIgnored ==
    [][/\ (/\ dpc = "watch" /\ events # <<>>
           /\ events' = Tail(events)
           /\ Notified.op = "CREATE"
           /\ HasSuffix(Notified.name, TorrentSuffix))
            => (/\ dpc' = "watch"
                /\ UNCHANGED <<cur, submits, late, semaphore, wg, dbMutex,
                               db, dbFailed, jobs, out>>)
       /\ watching
            => \A n \in Names :
                    HasSuffix(n, TorrentSuffix) => submits'[n] = submits[n]]_vars

\* C12 witness: the dispatcher is about to handle the create notification of
\* an existing directory whose name ends in ".torrent", which has no record
\* in the ledger and was never submitted, with the pool empty.
C12_Witness ==
    /\ dpc = "watch" /\ events # <<>>
    /\ Notified.op = "CREATE"
    /\ HasSuffix(Notified.name, TorrentSuffix)
    /\ Notified.name \in fs \cap Dirs
    /\ Count(db, Notified.name) = 0
    /\ submits[Notified.name] = 0
    /\ semaphore = 0

\* ------------------------------------------------------------------- C13
\* The PieceStream: the bytes of the regular files of the tree from item p
\* on, in walk order.
RECURSIVE PieceStream(_, _)
PieceStream(t, p) ==
    IF p > Len(t) THEN <<>>
    ELSE (IF t[p].dir THEN <<>> ELSE FileBytes(p, 0, t[p].len))
            \o PieceStream(t, p + 1)

\* The bytes covered by the pieces from piece i on.
RECURSIVE Flatten(_, _)
Flatten(ps, i) == IF i > Len(ps) THEN <<>> ELSE ps[i] \o Flatten(ps, i + 1)

\* T: the sum of the lengths of the entry's files.
TotalLength == Len(PieceStream(hasher.tree, 1))

CeilDiv(t, l) == (t + l - 1) \div l

\* C13: when hashing is done the number of piece hashes is ceil(T / L), zero
\* when T = 0, and the pieces cover exactly the bytes of the files in traversal
\* order: every piece but the last holds L bytes, the last between 1 and L,
\* and bytes of consecutive files share a piece with nothing in between.
C13_PieceCount ==
    hasher.pc = "done" =>
        /\ Len(hasher.pieces) = CeilDiv(TotalLength, hasher.PieceLength)
        /\ TotalLength = 0 => hasher.pieces = <<>>
        /\ Flatten(hasher.pieces, 1) = PieceStream(hasher.tree, 1)
        /\ \A i \in 1..Len(hasher.pieces) :
                /\ Len(hasher.pieces[i]) \in 1..hasher.PieceLength
                /\ i < Len(hasher.pieces)
                    => Len(hasher.pieces[i]) = hasher.PieceLength

\* C13 witness: a directory with files of L/2 and L + L/2 bytes has been
\* hashed with piece length L = 2, and the first piece holds the byte of the
\* first file followed by the first byte of the second.
C13_Witness ==
    /\ hasher.pc = "done"
    /\ hasher.PieceLength = 2
    /\ ~hasher.single
    /\ Len(hasher.files) = 2
    /\ hasher.files[1].length = 1 /\ hasher.files[2].length = 3
    /\ Len(hasher.pieces) = 2
    /\ hasher.pieces[1] = <<<<hasher.files[1].path, 1>>,
                            <<hasher.files[2].path, 1>>>>

\* ------------------------------------------------------------------- C14
\* The calls that spawned the jobs, in the order the jobs got their slot.
AdmittedCalls == [j \in 1..Len(jobs) |-> jobs[j].call]

\* C14: jobs are admitted in submission order: the calls whose jobs hold or
\* held a slot are, in admission order, exactly the first calls that passed
\* the ledger check, in call order, and at most the last such call is still
\* waiting for its slot.  (Nothing orders the completions.)
C14_AdmissionInSubmissionOrder ==
    /\ Len(jobs) <= Len(passed)
    /\ Len(passed) <= Len(jobs) + 1
    /\ AdmittedCalls = SubSeq(passed, 1, Len(jobs))
    /\ \A j, k \in 1..Len(passed) : j < k => passed[j] < passed[k]
    /\ Len(passed) = Len(jobs) + 1 <=> dpc = "send"

\* C14 witness: two calls passed the check and were admitted in call order,
\* and the job admitted second has finished while the first is still hashing.
C14_Witness ==
    /\ Len(jobs) = 2
    /\ jobs[1].call < jobs[2].call
    /\ jobs[1].pc = "hash"
    /\ jobs[2].pc = "done"

\* ------------------------------------------------------------------- C15
\* C15: the dispatcher handles one notification at a time (a notification is
\* taken only at the select of the loop, with no call in progress), and a
\* processNewFolder call made for a notification never has to wait for a
\* hashing job: whenever it is about to hand over its job it can do so at
\* once, also when the pool is saturated.
C15_DispatcherNeverWaitsForJob ==
    /\ (dpc = "watch") => cur = NoPath
    /\ (watching /\ dpc = "send") => ENABLED SemSend

\* ------------------------------------------------------------------- C16
\* The job finishes in this step.
Finishes(j) == jobs[j].pc # "done" /\ jobs'[j].pc = "done"

\* C16: the occupied slots are, in every state, as many as the admitted jobs
\* that have not finished.  A job is admitted in the step that takes one slot
\* for it; a job finishes in a step that gives one slot back, after its
\* ledger-insert step has run, whether the job succeeded or failed; no other
\* step touches the pool, and a finished job takes no further step.
C16_SlotAccounting ==
    /\ [](semaphore = Cardinality(LiveJobs) /\ semaphore \in 0..semCap)
    /\ [][/\ Len(jobs') >= Len(jobs)
          /\ Len(jobs') > Len(jobs)
                => (/\ Len(jobs') = Len(jobs) + 1
                    /\ semaphore' = semaphore + 1
                    /\ jobs'[Len(jobs')].pc = "hash")
          /\ \A j \in 1..Len(jobs) :
                /\ Finishes(j)
                    => (/\ semaphore' = semaphore - 1
                        /\ jobs[j].pc = "release"
                        /\ jobs[j].ins # "none")
                /\ jobs[j].pc = "done" => jobs'[j] = jobs[j]
          /\ semaphore' # semaphore
                => \/ Len(jobs') > Len(jobs)
                   \/ \E j \in 1..Len(jobs) : Finishes(j)]_vars

\* C16 witness: a job whose createTorrent failed has finished and given its
\* slot back, and the one slot now occupied belongs to the other job.
C16_Witness ==
    /\ Len(jobs) = 2
    /\ jobs[1].pc = "done" /\ ~jobs[1].ok
    /\ jobs[2].pc # "done"
    /\ semaphore = 1

\* ------------------------------------------------------------------- C17
\* Who is inside a ledger access: the dispatcher between Lock and the end of
\* its query, a job between Lock and the end of its insert.
InLedger ==
    (IF dpc = "query" THEN {Dispatcher} ELSE {})
        \cup {j \in 1..Len(jobs) : jobs[j].pc = "insert"}

\* C17: ledger accesses are mutually exclusive: at most one of the dispatcher
\* and the jobs is inside a ledger access, it is the holder of the mutex, and
\* the table changes only in a step of the job that holds the mutex.
C17_LedgerMutualExclusion ==
    /\ [](/\ Cardinality(InLedger) <= 1
          /\ InLedger = IF dbMutex = Free THEN {} ELSE {dbMutex})
    /\ [][db' # db => (/\ dbMutex \in 1..Len(jobs)
                       /\ jobs[dbMutex].pc = "insert"
                       /\ jobs'[dbMutex].pc = "release"
                       /\ dpc # "query")]_vars

\* C17 witness: a job is inserting while the dispatcher and another job both
\* wait for the mutex.
C17_Witness ==
    /\ dpc = "lock"
    /\ \E j, k \in 1..Len(jobs) :
        /\ jobs[j].pc = "insert" /\ dbMutex = j
        /\ jobs[k].pc = "lock"

\* ------------------------------------------------------------------- C18
\* C18: an external reader finds every output file either absent or
\* completely written, never partially written, also while a job is writing
\* it and after a write that failed midway.
C18_OutputAtomic ==
    \A n \in Names : out[n].state \in {"absent", "complete"}

\* ------------------------------------------------------------------- C19
\* The pool is saturated: every slot is taken.
Saturated == semaphore = semCap

\* C19: the orchestrator cannot deadlock.  The dispatcher holds the ledger
\* mutex only inside its query, never while it waits for a slot; a job that
\* holds the mutex is inside its insert and holds its slot already (no job
\* ever waits for a slot); whoever holds the mutex can take its next step;
\* and a saturated pool always leads to a state with a free slot.
C19_NoDeadlock ==
    /\ [](/\ dbMutex = Dispatcher => dpc = "query"
          /\ dpc = "send" => dbMutex # Dispatcher
          /\ \A j \in 1..Len(jobs) :
                /\ dbMutex = j => (jobs[j].pc = "insert" /\ ENABLED DbInsert(j))
                /\ jobs[j].pc # "done" => semaphore >= 1
          /\ dbMutex = Dispatcher => ENABLED IsNewQuery)
    /\ Saturated ~> ~Saturated

\* C19 witness: the pool is saturated, the dispatcher waits for a slot with
\* the mutex free, and the running job is about to take the mutex.
C19_Witness ==
    /\ Saturated
    /\ dpc = "send"
    /\ dbMutex = Free
    /\ \E j \in 1..Len(jobs) : jobs[j].pc = "lock"

====
